---- MODULE Spec2Model ----
(***************************************************************************)
(* Model of gamepad_mapper.py: the GamepadMapper class (configuration,     *)
(* device discovery, the polling loop that translates gamepad events into  *)
(* key presses) and main().                                                *)
(*                                                                         *)
(* Axis values and thresholds are tenths: 5 stands for 0.5, -9 for -0.9.   *)
(***************************************************************************)
EXTENDS Integers, Sequences, FiniteSets, TLC

VARIABLES
    pc,              \* position of main(): init, start_loop, loop, events, returned, stopped;
                     \* raised when an exception left __init__
    running,         \* self.running
    gamepad,         \* self.gamepad (NoDevice for None)
    config,          \* self.config
    config_file,     \* contents of the file at self.config_file
    plugged,         \* index detect_gamepad would return now (NoDevice for None)
    button_states,   \* local dict button_states of run_gamepad_loop
    trigger_states,  \* local dict trigger_states of run_gamepad_loop
    called,          \* the name the event just handled passed to handle_button_press;
                     \* None when it made no call, and between batches
    injected,        \* the keyboard_controller.press / release calls of the event just
                     \* handled, in order; empty between batches
    ndetect,         \* number of detect_gamepad calls start() has made since it began or,
                     \* if later, since the polling loop was last entered
    sessions,        \* number of times run_gamepad_loop reached its polling loop since
                     \* start() began
    entered,         \* how the polling loop was last entered, until its first batch: clean
                     \* (the state variables were idle), dirty (they held what an earlier
                     \* session left); none otherwise
    last_button,     \* per button id of the table, its last event of this session: none,
                     \* down, up
    last_axis,       \* per axis 0..3, its last event of this session: high (beyond the
                     \* threshold of the axis), low (not beyond it, or no event yet)
    event,           \* loop variable event: the event just handled; NoEvent between batches
    before           \* what last_button or last_axis said of the button or axis of the
                     \* event just handled, before it; none if they do not follow it

vars == <<pc, running, gamepad, config, config_file, plugged, button_states,
          trigger_states, called, injected, ndetect, sessions, entered, last_button,
          last_axis, event, before>>

----------------------------------------------------------------------------
\* Bounds of the model.

MaxDetects == 2       \* detect_gamepad calls in a row that do not enter the polling loop

----------------------------------------------------------------------------
\* Values.

NoDevice == -1                     \* Python None where a joystick index is expected
None == "None"                     \* Python None where a button name is expected

DeviceIds == {0, 1}                \* joystick indices detect_gamepad returns: the first, another
ButtonIds == {0, 4, 10}            \* ids of the events drawn: A, LEFT_TRIGGER, one outside the table
TableIds == {b \in ButtonIds : b \in 0..9}
AxisIds == {0, 1, 2, 3}            \* the axes the loop reads
AxisValues == {-9, 3, 5, 6, 7, 9}  \* tenths

ButtonEvents == [type : {"JOYBUTTONDOWN", "JOYBUTTONUP"}, button : ButtonIds]
AxisEvents ==
    [type : {"JOYAXISMOTION"}, axis : AxisIds, value : AxisValues]
        \cup {[type |-> "JOYAXISMOTION", axis |-> 4, value |-> 9]}   \* an axis it does not read
Events == ButtonEvents \cup AxisEvents
NoEvent == [type |-> "none"]

Outcomes == {"ok", "press_raises", "release_raises"}

Abs(v) == IF v < 0 THEN -v ELSE v

EmptyDict == [k \in {} |-> TRUE]
DictSet(d, k, v) == [x \in DOMAIN d \cup {k} |-> IF x = k THEN v ELSE d[x]]

----------------------------------------------------------------------------
\* Configuration.

DefaultMappings ==
    [n \in {"A", "B", "X", "Y", "START", "SELECT", "LEFT_TRIGGER", "RIGHT_TRIGGER",
            "DPAD_UP", "DPAD_DOWN", "DPAD_LEFT", "DPAD_RIGHT"} |->
        CASE n = "A" -> "space"
          [] n = "B" -> "escape"
          [] n = "X" -> "return"
          [] n = "Y" -> "tab"
          [] n = "START" -> "f11"
          [] n = "SELECT" -> "f12"
          [] n = "LEFT_TRIGGER" -> "ctrl"
          [] n = "RIGHT_TRIGGER" -> "shift"
          [] n = "DPAD_UP" -> "up"
          [] n = "DPAD_DOWN" -> "down"
          [] n = "DPAD_LEFT" -> "left"
          [] n = "DPAD_RIGHT" -> "right"]

default_config ==
    [button_mappings |-> DefaultMappings,
     trigger_threshold |-> 5,
     polling_rate |-> 60,
     auto_restart |-> TRUE]

\* A configuration a user wrote: one mapping, a higher threshold, no restart.
CustomConfig ==
    [button_mappings |-> [n \in {"A"} |-> "space"],
     trigger_threshold |-> 7,
     auto_restart |-> FALSE]

EmptyConfig == [k \in {} |-> 0]

\* The file: absent, text that is not JSON, bytes that are not text, or the JSON text of
\* a configuration.
Absent == [kind |-> "absent"]
Malformed == [kind |-> "malformed"]
Undecodable == [kind |-> "undecodable"]

\* json.dump of one member of the configuration object: a number is written in decimal
\* (0.5 for 5 tenths, 60 for 60), a bool as true or false, the mappings as an object of
\* strings.
JsonEncode(k, v) ==
    CASE k = "button_mappings" -> [t |-> "object", members |-> v]
      [] k = "auto_restart" -> [t |-> "literal", text |-> IF v THEN "true" ELSE "false"]
      [] k = "trigger_threshold" -> [t |-> "number", int |-> v \div 10, frac |-> v % 10]
      [] OTHER -> [t |-> "number", int |-> v, frac |-> 0]

\* json.load of one member, reading a number as an int and dropping its decimals.
JsonDecodeInt(k, j) ==
    CASE j.t = "object" -> j.members
      [] j.t = "literal" -> (j.text = "true")
      [] j.t = "number" -> IF k = "trigger_threshold" THEN j.int * 10 ELSE j.int

\* json.load of one member: the value json.dump wrote.
JsonDecode(k, j) ==
    CASE j.t = "object" -> j.members
      [] j.t = "literal" -> (j.text = "true")
      [] j.t = "number" -> IF k = "trigger_threshold" THEN j.int * 10 + j.frac ELSE j.int

JsonDump(cfg) == [kind |-> "json", doc |-> [k \in DOMAIN cfg |-> JsonEncode(k, cfg[k])]]
JsonLoad(file) == [k \in DOMAIN file.doc |-> JsonDecode(k, file.doc[k])]

Files == {Absent, Malformed, Undecodable, JsonDump(CustomConfig)}

SaveConfig(cfg) == JsonDump(cfg)

\* load_config, lines 56-61: only json.JSONDecodeError and FileNotFoundError are caught;
\* the UnicodeDecodeError of a file that is not text leaves load_config and __init__.
LoadRaises(file) == file.kind = "undecodable"

LoadConfig(file) ==
    IF file.kind = "absent" THEN default_config
    ELSE IF file.kind = "malformed" THEN EmptyConfig
    ELSE IF file.kind = "undecodable" THEN EmptyConfig   \* no value: self.config is never set
    ELSE JsonLoad(file)

FileAfterLoad(file) ==
    IF file.kind = "absent" THEN SaveConfig(default_config) ELSE file

ConfigGet(k, default) == IF k \in DOMAIN config THEN config[k] ELSE default

ButtonMappings == ConfigGet("button_mappings", EmptyDict)
DefaultTriggerThreshold == 5       \* 0.5
DpadThreshold == 5                 \* 0.5

DefaultPollingRate == 60

TriggerThreshold == ConfigGet("trigger_threshold", DefaultTriggerThreshold)
PollingRate == ConfigGet("polling_rate", DefaultPollingRate)

\* Line 227 with False as the value of an absent auto_restart.
AutoRestartAbsentFalse == ConfigGet("auto_restart", FALSE)

AutoRestart == ConfigGet("auto_restart", TRUE)

----------------------------------------------------------------------------
\* Key Action Dispatcher.

get_key_from_string(key_string) ==
    CASE key_string = "space" -> " "
      [] key_string = "return" -> "Key.enter"
      [] key_string = "escape" -> "Key.esc"
      [] key_string = "tab" -> "Key.tab"
      [] key_string = "f11" -> "Key.f11"
      [] key_string = "f12" -> "Key.f12"
      [] key_string = "ctrl" -> "Key.ctrl"
      [] key_string = "shift" -> "Key.shift"
      [] key_string = "alt" -> "Key.alt"
      [] key_string = "up" -> "Key.up"
      [] key_string = "down" -> "Key.down"
      [] key_string = "left" -> "Key.left"
      [] key_string = "right" -> "Key.right"
      [] key_string = "home" -> "Key.home"
      [] key_string = "end" -> "Key.end"
      [] key_string = "page_up" -> "Key.page_up"
      [] key_string = "page_down" -> "Key.page_down"
      [] key_string = "insert" -> "Key.insert"
      [] key_string = "delete" -> "Key.delete"
      [] key_string = "backspace" -> "Key.backspace"
      [] OTHER -> key_string

Call(op, key, ok) == [op |-> op, key |-> key, ok |-> ok]

\* press_key without the release of line 123.
press_key_hold(key_string, outcome) ==
    LET key == get_key_from_string(key_string) IN
    CASE outcome = "ok" -> <<Call("press", key, TRUE)>>
      [] outcome = "press_raises" -> <<Call("press", key, FALSE)>>
      [] outcome = "release_raises" -> <<Call("press", key, TRUE)>>

\* The injector calls press_key makes: press, then release unless press raised.
press_key(key_string, outcome) ==
    LET key == get_key_from_string(key_string) IN
    CASE outcome = "ok" -> <<Call("press", key, TRUE), Call("release", key, TRUE)>>
      [] outcome = "press_raises" -> <<Call("press", key, FALSE)>>
      [] outcome = "release_raises" -> <<Call("press", key, TRUE), Call("release", key, FALSE)>>

\* press_key without the try of lines 120-125: what the injector raises leaves press_key.
PropagatesUncaught(outcome) == outcome # "ok"

\* press_key, lines 120-125: whether an exception of the injector leaves press_key.
Propagates(outcome) == FALSE

\* handle_button_press without the membership test of line 129: an unmapped name is typed.
handle_button_press_unmapped(button_name, outcome) ==
    press_key(IF button_name \in DOMAIN ButtonMappings
              THEN ButtonMappings[button_name] ELSE button_name, outcome)

\* The injector calls handle_button_press makes for a button name.
handle_button_press(button_name, outcome) ==
    IF button_name \in DOMAIN ButtonMappings
    THEN press_key(ButtonMappings[button_name], outcome)
    ELSE <<>>

----------------------------------------------------------------------------
\* Input Translator.

get_button_name(button_id) ==
    CASE button_id = 0 -> "A"
      [] button_id = 1 -> "B"
      [] button_id = 2 -> "X"
      [] button_id = 3 -> "Y"
      [] button_id = 4 -> "LEFT_TRIGGER"
      [] button_id = 5 -> "RIGHT_TRIGGER"
      [] button_id = 6 -> "SELECT"
      [] button_id = 7 -> "START"
      [] button_id = 8 -> "LEFT_STICK"
      [] button_id = 9 -> "RIGHT_STICK"
      [] OTHER -> None

trigger_name(axis) == IF axis = 2 THEN "left" ELSE "right"

TriggerButton(axis) == IF axis = 2 THEN "LEFT_TRIGGER" ELSE "RIGHT_TRIGGER"

\* Line 156 without the button_states test.
ButtonDownFiresAlways(states, button_name) ==
    button_name # None

\* Line 156: a button-down fires when the name is no key of button_states.
ButtonDownFires(states, button_name) ==
    button_name # None /\ button_name \notin DOMAIN states

\* Lines 171-172 without the trigger_states test.
TriggerFiresLevel(states, axis, value) ==
    Abs(value) > TriggerThreshold

\* Lines 171-172: a trigger event fires above the threshold when the state is False.
TriggerFires(states, axis, value) ==
    Abs(value) > TriggerThreshold /\ ~states[trigger_name(axis)]

\* Lines 171-176 with >= in place of > at line 171.
TriggerAfterInclusive(states, axis, value) ==
    IF Abs(value) >= TriggerThreshold
    THEN IF ~states[trigger_name(axis)]
         THEN [states EXCEPT ![trigger_name(axis)] = TRUE]
         ELSE states
    ELSE [states EXCEPT ![trigger_name(axis)] = FALSE]

\* Lines 171-176: the trigger's state after the event.
TriggerAfter(states, axis, value) ==
    IF Abs(value) > TriggerThreshold
    THEN IF ~states[trigger_name(axis)]
         THEN [states EXCEPT ![trigger_name(axis)] = TRUE]
         ELSE states
    ELSE [states EXCEPT ![trigger_name(axis)] = FALSE]

\* Lines 179-191 with the configured trigger threshold in place of 0.5.
DpadFiresConfigured(axis, value) ==
    LET threshold == TriggerThreshold IN
    IF Abs(value) > threshold
    THEN IF axis = 0
         THEN IF value > threshold THEN "DPAD_RIGHT"
              ELSE IF value < -threshold THEN "DPAD_LEFT" ELSE None
         ELSE IF value > threshold THEN "DPAD_DOWN"
              ELSE IF value < -threshold THEN "DPAD_UP" ELSE None
    ELSE None

\* Lines 179-191: the D-pad name an axis 0/1 event fires, None when it fires nothing.
DpadFires(axis, value) ==
    LET threshold == DpadThreshold IN
    IF Abs(value) > threshold
    THEN IF axis = 0
         THEN IF value > threshold THEN "DPAD_RIGHT"
              ELSE IF value < -threshold THEN "DPAD_LEFT" ELSE None
         ELSE IF value > threshold THEN "DPAD_DOWN"
              ELSE IF value < -threshold THEN "DPAD_UP" ELSE None
    ELSE None

\* Lines 154-191 with a button-up firing like a button-down.
FiredOnUp(e) ==
    IF e.type \in {"JOYBUTTONDOWN", "JOYBUTTONUP"}
    THEN get_button_name(e.button)
    ELSE IF e.axis \in {2, 3}
    THEN IF TriggerFires(trigger_states, e.axis, e.value) THEN TriggerButton(e.axis) ELSE None
    ELSE IF e.axis \in {0, 1} THEN DpadFires(e.axis, e.value)
    ELSE None

\* The button name the event passes to handle_button_press, None when it makes no call.
Fired(e) ==
    IF e.type = "JOYBUTTONDOWN"
    THEN IF ButtonDownFires(button_states, get_button_name(e.button))
         THEN get_button_name(e.button) ELSE None
    ELSE IF e.type = "JOYBUTTONUP" THEN None
    ELSE IF e.axis \in {2, 3}
    THEN IF TriggerFires(trigger_states, e.axis, e.value) THEN TriggerButton(e.axis) ELSE None
    ELSE IF e.axis \in {0, 1} THEN DpadFires(e.axis, e.value)
    ELSE None

\* Lines 154-163 without the test of button_name at line 162.
ButtonStatesAfterUnnamed(e) ==
    LET button_name == IF e.type = "JOYAXISMOTION" THEN None ELSE get_button_name(e.button) IN
    IF e.type = "JOYBUTTONDOWN"
    THEN IF ButtonDownFires(button_states, button_name)
         THEN DictSet(button_states, button_name, TRUE)
         ELSE button_states
    ELSE IF e.type = "JOYBUTTONUP"
    THEN DictSet(button_states, button_name, FALSE)
    ELSE button_states

\* Lines 154-163: button_states after the event.
ButtonStatesAfter(e) ==
    LET button_name == IF e.type = "JOYAXISMOTION" THEN None ELSE get_button_name(e.button) IN
    IF e.type = "JOYBUTTONDOWN"
    THEN IF ButtonDownFires(button_states, button_name)
         THEN DictSet(button_states, button_name, TRUE)
         ELSE button_states
    ELSE IF e.type = "JOYBUTTONUP"
    THEN IF button_name # None
         THEN DictSet(button_states, button_name, FALSE)
         ELSE button_states
    ELSE button_states

\* Lines 154-176 with the buttons named LEFT_TRIGGER and RIGHT_TRIGGER marking their
\* trigger above the threshold.
TriggerStatesAfterShared(e) ==
    IF e.type = "JOYAXISMOTION" /\ e.axis \in {2, 3}
    THEN TriggerAfter(trigger_states, e.axis, e.value)
    ELSE IF e.type = "JOYBUTTONDOWN" /\ e.button \in {4, 5}
    THEN [trigger_states EXCEPT ![IF e.button = 4 THEN "left" ELSE "right"] = TRUE]
    ELSE trigger_states

\* Lines 165-176: trigger_states after the event.
TriggerStatesAfter(e) ==
    IF e.type = "JOYAXISMOTION" /\ e.axis \in {2, 3}
    THEN TriggerAfter(trigger_states, e.axis, e.value)
    ELSE trigger_states

\* What the gamepad did, kept to state the claims: the last event of each button id
\* and of each axis in this session, and the event just handled.
Beyond(axis, value) ==
    Abs(value) > (IF axis \in {2, 3} THEN TriggerThreshold ELSE 5)

LastButtonAfter(e) ==
    IF e.type = "JOYBUTTONDOWN" /\ e.button \in TableIds
    THEN [last_button EXCEPT ![e.button] = "down"]
    ELSE IF e.type = "JOYBUTTONUP" /\ e.button \in TableIds
    THEN [last_button EXCEPT ![e.button] = "up"]
    ELSE last_button

LastAxisAfter(e) ==
    IF e.type = "JOYAXISMOTION" /\ e.axis \in 0..3
    THEN [last_axis EXCEPT ![e.axis] = IF Beyond(e.axis, e.value) THEN "high" ELSE "low"]
    ELSE last_axis

Before(e) ==
    IF e.type = "JOYAXISMOTION"
    THEN IF e.axis \in 0..3 THEN last_axis[e.axis] ELSE "none"
    ELSE IF e.button \in TableIds THEN last_button[e.button] ELSE "none"

----------------------------------------------------------------------------
\* The state after GamepadMapper() is constructed.

Init ==
    /\ running = FALSE
    /\ gamepad = NoDevice
    /\ \E file \in Files :
        /\ config = LoadConfig(file)
        /\ config_file = FileAfterLoad(file)
        /\ pc = IF LoadRaises(file) THEN "raised" ELSE "init"
    /\ plugged \in {NoDevice} \cup DeviceIds
    /\ button_states = EmptyDict
    /\ trigger_states = [left |-> FALSE, right |-> FALSE]
    /\ called = None
    /\ injected = <<>>
    /\ ndetect = 0
    /\ sessions = 0
    /\ entered = "none"
    /\ last_button = [b \in TableIds |-> "none"]
    /\ last_axis = [a \in 0..3 |-> "low"]
    /\ event = NoEvent
    /\ before = "none"

session == <<button_states, trigger_states, last_button, last_axis>>
logs == <<called, injected, event, before>>

\* start(), line 214: called by main(), or called again on the mapper after it returned.
Start ==
    /\ pc \in {"init", "returned"}
    /\ running' = TRUE
    /\ pc' = "start_loop"
    /\ ndetect' = 0
    /\ sessions' = 0
    /\ UNCHANGED <<gamepad, config, config_file, plugged, session, logs, entered>>

\* detect_gamepad: the index of the first joystick with a gamepad name, or None.
detect_gamepad == plugged

\* No button has been seen and both triggers are below the threshold.
Idle ==
    /\ button_states = EmptyDict
    /\ trigger_states = [left |-> FALSE, right |-> FALSE]

\* run_gamepad_loop, line 136: the loop is not entered when self.gamepad is falsy.
LoopEntered(g) == ~(g = NoDevice \/ g = 0)

\* DetectFound without lines 149-150: the loop starts with the state it finds.
DetectFoundNoReset ==
    /\ pc = "start_loop"
    /\ running
    /\ ndetect < MaxDetects
    /\ detect_gamepad # NoDevice
    /\ gamepad' = detect_gamepad
    /\ IF LoopEntered(gamepad')
       THEN /\ pc' = "loop"
            /\ ndetect' = 0
            /\ sessions' = sessions + 1
            /\ last_button' = [b \in TableIds |-> "none"]
            /\ last_axis' = [a \in 0..3 |-> "low"]
            /\ entered' = IF Idle THEN "clean" ELSE "dirty"
            /\ UNCHANGED <<button_states, trigger_states>>
       ELSE /\ pc' = "start_loop"
            /\ ndetect' = ndetect + 1
            /\ UNCHANGED <<sessions, session, entered>>
    /\ UNCHANGED <<running, config, config_file, plugged, logs>>

\* start(), lines 216-222 and run_gamepad_loop up to line 150: a gamepad is detected.
DetectFound ==
    /\ pc = "start_loop"
    /\ running
    /\ ndetect < MaxDetects
    /\ detect_gamepad # NoDevice
    /\ gamepad' = detect_gamepad
    /\ IF LoopEntered(gamepad')
       THEN /\ pc' = "loop"
            /\ ndetect' = 0
            /\ sessions' = sessions + 1
            /\ button_states' = EmptyDict
            /\ trigger_states' = [left |-> FALSE, right |-> FALSE]
            /\ last_button' = [b \in TableIds |-> "none"]
            /\ last_axis' = [a \in 0..3 |-> "low"]
            /\ entered' = IF Idle THEN "clean" ELSE "dirty"
       ELSE /\ pc' = "start_loop"
            /\ ndetect' = ndetect + 1
            /\ UNCHANGED <<sessions, session, entered>>
    /\ UNCHANGED <<running, config, config_file, plugged, logs>>

\* start(), lines 216-228 without the break of line 228.
DetectNoneRetry ==
    /\ pc = "start_loop"
    /\ running
    /\ ndetect < MaxDetects
    /\ detect_gamepad = NoDevice
    /\ ndetect' = ndetect + 1
    /\ pc' = "start_loop"
    /\ UNCHANGED <<running, gamepad, config, config_file, plugged, session,
                   logs, sessions, entered>>

\* start(), lines 216-228: no gamepad is detected.
DetectNone ==
    /\ pc = "start_loop"
    /\ running
    /\ ndetect < MaxDetects
    /\ detect_gamepad = NoDevice
    /\ ndetect' = ndetect + 1
    /\ pc' = IF ~AutoRestart THEN "returned" ELSE "start_loop"
    /\ UNCHANGED <<running, gamepad, config, config_file, plugged, session,
                   logs, sessions, entered>>

\* start(), line 216: the loop ends when self.running is false.
StartExit ==
    /\ pc = "start_loop"
    /\ ~running
    /\ pc' = "returned"
    /\ UNCHANGED <<running, gamepad, config, config_file, plugged, session,
                   logs, ndetect, sessions, entered>>

\* Poll without the test of self.running of line 152.
PollIgnoringStop ==
    /\ pc = "loop"
    /\ pc' = "events"
    /\ entered' = "none"
    /\ UNCHANGED <<running, gamepad, config, config_file, plugged, session, logs,
                   ndetect, sessions>>

\* run_gamepad_loop, lines 152-153: the loop test passes and pygame.event.get() returns
\* a batch of events, of any length.
Poll ==
    /\ pc = "loop"
    /\ running
    /\ pc' = "events"
    /\ entered' = "none"
    /\ UNCHANGED <<running, gamepad, config, config_file, plugged, session, logs,
                   ndetect, sessions>>

\* run_gamepad_loop, lines 154-191: what one event of the batch does to the loop's state
\* and which call of handle_button_press it makes.
Translate(e) ==
    /\ pc = "events"
    /\ plugged # NoDevice        \* an unplugged gamepad sends no button or axis events
    /\ called' = Fired(e)
    /\ button_states' = ButtonStatesAfter(e)
    /\ trigger_states' = TriggerStatesAfter(e)
    /\ last_button' = LastButtonAfter(e)
    /\ last_axis' = LastAxisAfter(e)
    /\ event' = e
    /\ before' = Before(e)
    /\ UNCHANGED <<running, gamepad, config, config_file, plugged, ndetect, sessions, entered>>

\* Lines 158, 174, 184-191: the injector calls of the event's handle_button_press call;
\* the injector raises only where it is called, and the for loop goes on unless the
\* exception leaves press_key.
Dispatch(e, outcome) ==
    /\ outcome # "ok" => Fired(e) \in DOMAIN ButtonMappings
    /\ injected' = IF Fired(e) # None
                   THEN handle_button_press(Fired(e), outcome)
                   ELSE <<>>
    /\ pc' = IF Propagates(outcome) THEN "raised" ELSE "events"

\* run_gamepad_loop, lines 154-191: one event of the batch.
HandleEvent(e, outcome) ==
    /\ Translate(e)
    /\ Dispatch(e, outcome)

\* run_gamepad_loop, line 193: the batch is exhausted.
Sleep ==
    /\ pc = "events"
    /\ pc' = "loop"
    /\ called' = None
    /\ injected' = <<>>
    /\ event' = NoEvent
    /\ before' = "none"
    /\ UNCHANGED <<running, gamepad, config, config_file, plugged, session,
                   ndetect, sessions, entered>>

\* run_gamepad_loop, line 152: the loop ends when self.running is false.
LoopExit ==
    /\ pc = "loop"
    /\ ~running
    /\ pc' = "start_loop"
    /\ UNCHANGED <<running, gamepad, config, config_file, plugged, session,
                   logs, ndetect, sessions, entered>>

\* stop(), called while start() runs.
Stop ==
    /\ pc \in {"start_loop", "loop", "events"}
    /\ running
    /\ running' = FALSE
    /\ UNCHANGED <<pc, gamepad, config, config_file, plugged, session, logs,
                   ndetect, sessions, entered>>

\* main(), lines 244-247: KeyboardInterrupt ends start(), then stop().
Interrupt ==
    /\ pc \in {"start_loop", "loop", "events"}
    /\ running' = FALSE
    /\ pc' = "stopped"
    /\ UNCHANGED <<gamepad, config, config_file, plugged, session, logs,
                   ndetect, sessions, entered>>

\* main(), lines 243 and 246-247: start() returned, then stop().
MainFinally ==
    /\ pc = "returned"
    /\ running' = FALSE
    /\ pc' = "stopped"
    /\ UNCHANGED <<gamepad, config, config_file, plugged, session, logs,
                   ndetect, sessions, entered>>

\* The environment: while start() discovers, the gamepad is plugged in, unplugged or
\* enumerated elsewhere; while the polling loop runs, it is unplugged.
DeviceChange(d) ==
    /\ \/ pc = "start_loop"
       \/ pc = "loop" /\ d = NoDevice
    /\ d # plugged
    /\ plugged' = d
    /\ UNCHANGED <<pc, running, gamepad, config, config_file, session, logs,
                   ndetect, sessions, entered>>

Next ==
    \/ Start
    \/ DetectFound
    \/ DetectNone
    \/ StartExit
    \/ Poll
    \/ \E e \in Events, outcome \in Outcomes : HandleEvent(e, outcome)
    \/ Sleep
    \/ LoopExit
    \/ Stop
    \/ Interrupt
    \/ MainFinally
    \/ \E d \in {NoDevice} \cup DeviceIds : DeviceChange(d)

Spec == Init /\ [][Next]_vars

\* The loops make progress: a batch of events is finite, time.sleep returns, and a loop
\* whose test fails is left.
LiveSpec ==
    /\ Spec
    /\ WF_vars(Sleep)
    /\ WF_vars(LoopExit)
    /\ WF_vars(StartExit)

\* The run state of the Mapper Controller.
RunState ==
    IF pc \in {"loop", "events"} THEN "Active"
    ELSE IF pc = "start_loop" THEN "Discovering"
    ELSE "Stopped"

TypeOK ==
    /\ pc \in {"init", "start_loop", "loop", "events", "returned", "stopped", "raised"}
    /\ running \in BOOLEAN
    /\ gamepad \in {NoDevice} \cup DeviceIds
    /\ plugged \in {NoDevice} \cup DeviceIds
    /\ ndetect \in 0..MaxDetects
    /\ called \in {None} \cup {get_button_name(b) : b \in 0..9}
                 \cup {"DPAD_UP", "DPAD_DOWN", "DPAD_LEFT", "DPAD_RIGHT"}
    /\ Len(injected) <= 2
    /\ entered \in {"none", "clean", "dirty"}
    /\ event \in Events \cup {NoEvent}

----------------------------------------------------------------------------
\* The claims.  Each is stated of the event just handled: of every event of every
\* session, whatever came before it.

IsDown == event.type = "JOYBUTTONDOWN"
IsUp == event.type = "JOYBUTTONUP"
IsTrigger == event.type = "JOYAXISMOTION" /\ event.axis \in {2, 3}
IsDpad == event.type = "JOYAXISMOTION" /\ event.axis \in {0, 1}

\* C1: a button-down that arrives after a button-up of the same id, with no button-down
\* in between, calls handle_button_press with the button's name again.
C1_RearmOnRelease ==
    (IsDown /\ before = "up") => called = get_button_name(event.button)

\* C2: a button-down whose id's last event was a button-down (no button-up between the
\* two) makes no call of handle_button_press and no injector call.
C2_Debounce ==
    (IsDown /\ before = "down") => (called = None /\ injected = <<>>)

\* C2: button 0 went down again with no up between, and this second down fired nothing.
C2_Witness ==
    /\ event = [type |-> "JOYBUTTONDOWN", button |-> 0]
    /\ before = "down"
    /\ button_states["A"]
    /\ called = None
    /\ injected = <<>>

\* C3: an event of axis 2 or 3 calls handle_button_press (once, with the trigger's name)
\* exactly when its value is above the threshold and the axis's previous event of the
\* session, if any, was not; otherwise it makes no call and no injector call.
C3_TriggerEdge ==
    IsTrigger
        => IF Abs(event.value) > TriggerThreshold /\ before = "low"
           THEN called = (IF event.axis = 2 THEN "LEFT_TRIGGER" ELSE "RIGHT_TRIGGER")
           ELSE called = None /\ injected = <<>>

\* C3: the left trigger stayed above the threshold (0.6, then 0.7), and the second event
\* fired nothing.
C3_Witness ==
    /\ event = [type |-> "JOYAXISMOTION", axis |-> 2, value |-> 7]
    /\ before = "high"
    /\ TriggerThreshold = 5
    /\ trigger_states.left
    /\ called = None
    /\ injected = <<>>

\* C4: an event of axis 0 or 1 with abs(value) > 0.5 calls handle_button_press once, with
\* DPAD_RIGHT / DPAD_LEFT (axis 0, positive / negative) or DPAD_DOWN / DPAD_UP (axis 1),
\* whatever the trigger threshold and the events before it; one with abs(value) <= 0.5
\* makes no call.
C4_DpadEveryEvent ==
    IsDpad
        => IF Abs(event.value) > 5
           THEN called = (IF event.axis = 0
                          THEN (IF event.value > 0 THEN "DPAD_RIGHT" ELSE "DPAD_LEFT")
                          ELSE (IF event.value > 0 THEN "DPAD_DOWN" ELSE "DPAD_UP"))
           ELSE called = None /\ injected = <<>>

\* C4: an axis 0 event of 0.9 that follows one beyond 0.5 dispatched DPAD_RIGHT again.
C4_Witness ==
    /\ event = [type |-> "JOYAXISMOTION", axis |-> 0, value |-> 9]
    /\ before = "high"
    /\ called = "DPAD_RIGHT"
    /\ Len(injected) = 2

\* C5: a button-up event makes no call of handle_button_press and no injector call.
C5_UpNeverEmits ==
    IsUp => (called = None /\ injected = <<>>)

\* C5: button 0 was released after being down, and the release fired nothing.
C5_Witness ==
    /\ event = [type |-> "JOYBUTTONUP", button |-> 0]
    /\ before = "down"
    /\ called = None
    /\ injected = <<>>

\* C6: an event whose handle_button_press call names no key of button_mappings (or finds
\* no button_mappings in the config) makes no injector call, and the loop goes on.
C6_UnmappedNoInjection ==
    (event # NoEvent /\ called \notin DOMAIN ButtonMappings)
        => (injected = <<>> /\ (pc = "events" \/ (pc = "stopped" /\ ~running)))

\* C6: an event fired a name the config does not map, and nothing was injected.
C6_Witness ==
    /\ called # None
    /\ called \notin DOMAIN ButtonMappings
    /\ injected = <<>>
    /\ pc = "events"
    /\ running

\* C7: whenever detect_gamepad returns a device index, run_gamepad_loop enters its
\* polling loop with fresh button and trigger state.
C7_FoundMovesToActive ==
    [][DetectFound
          => (/\ pc' = "loop"
              /\ button_states' = EmptyDict
              /\ trigger_states' = [left |-> FALSE, right |-> FALSE])]_vars

\* C8: an iteration of the polling loop begun after the device disappeared, with no stop
\* requested, ends the loop and returns start() to discovery.
C8_DeviceLossRediscovers ==
    [][(Poll /\ plugged = NoDevice) => pc' = "start_loop"]_vars

\* C9: every press call that raised is followed by a release call for the same key.
C9_ReleaseAfterFailedPress ==
    \A i \in DOMAIN injected :
        (injected[i].op = "press" /\ ~injected[i].ok)
            => /\ i < Len(injected)
               /\ injected[i + 1].op = "release"
               /\ injected[i + 1].key = injected[i].key

\* C10: with auto_restart false, once discovery has found no device start() has made
\* exactly one detect_gamepad call, has never entered the polling loop, and has ended.
C10_NoDeviceNoRetry ==
    (~AutoRestart /\ ndetect >= 1 /\ gamepad = NoDevice)
        => (ndetect = 1 /\ sessions = 0 /\ pc \in {"returned", "stopped"})

\* C10: start() ended after one failed discovery and main() stopped the mapper.
C10_Witness ==
    /\ ~AutoRestart
    /\ ndetect = 1
    /\ gamepad = NoDevice
    /\ pc = "stopped"
    /\ ~running

\* C11: once stop() has cleared the run flag while start() runs, no detect_gamepad call
\* is made and no event batch is begun, and start() ends.
C11_StopLeadsToStopped ==
    /\ [][(~running /\ pc \in {"start_loop", "loop", "events"})
             => (~DetectFound /\ ~DetectNone /\ ~Poll)]_vars
    /\ (~running /\ pc \in {"start_loop", "loop", "events"}) ~> (RunState = "Stopped")

\* C11: start() returned out of a polling loop that a stop request ended.
C11_Witness ==
    /\ pc = "returned"
    /\ ~running
    /\ sessions = 1

\* C12: the injector calls of an event are those of the name it fired and no other: a
\* press, then (unless the press raised) the release of the same key; when no call
\* failed they are exactly the press and the release of the key mapped to that name, so
\* no key is held when the next event is handled.
C12_SequentialDispatch ==
    /\ injected # <<>> =>
        /\ event # NoEvent
        /\ called \in DOMAIN ButtonMappings
        /\ injected[1] = Call("press", get_key_from_string(ButtonMappings[called]),
                              injected[1].ok)
        /\ Len(injected) = 2 =>
            /\ injected[1].ok
            /\ injected[2].op = "release"
            /\ injected[2].key = injected[1].key
    /\ (\A i \in DOMAIN injected : injected[i].ok) => Len(injected) \in {0, 2}
    /\ (event # NoEvent /\ called \in DOMAIN ButtonMappings) => injected # <<>>

\* C12: a button-down of A pressed and released the space key, and the batch goes on.
C12_Witness ==
    /\ event = [type |-> "JOYBUTTONDOWN", button |-> 0]
    /\ called = "A"
    /\ injected = <<Call("press", " ", TRUE), Call("release", " ", TRUE)>>
    /\ pc = "events"

C14_MalformedFailsSoft ==
    config_file.kind \in {"malformed", "undecodable"}
        => /\ pc # "raised"
           /\ config = EmptyConfig
           /\ injected = <<>>
           /\ TriggerThreshold = 5
           /\ PollingRate = 60
           /\ AutoRestart

\* C15: an event whose press or release raises leaves the for loop going, the run flag
\* as it was, the device as it was, and the button and trigger state as the event alone
\* sets them.
C15_InjectorFailureContinues ==
    [][(/\ event' \in Events
        /\ injected' # <<>>
        /\ ~injected'[Len(injected')].ok
        /\ \E outcome \in {"press_raises", "release_raises"} : HandleEvent(event', outcome))
              => (/\ pc' = "events"
                  /\ running' = running
                  /\ plugged' # NoDevice
                  /\ button_states' = ButtonStatesAfter(event')
                  /\ trigger_states' = TriggerStatesAfter(event'))]_vars

\* C15: a button-down of A whose press raised marked A pressed, and the batch goes on.
C15_Witness ==
    /\ event = [type |-> "JOYBUTTONDOWN", button |-> 0]
    /\ injected = <<Call("press", " ", FALSE)>>
    /\ button_states["A"]
    /\ pc = "events"
    /\ running

\* C16: with auto_restart true or absent and no stop requested, start() is still
\* discovering after every detect_gamepad call that did not lead to the polling loop,
\* and makes another call.
C16_AutoRestartRetries ==
    (/\ "auto_restart" \in DOMAIN config => config.auto_restart
     /\ running
     /\ ndetect >= 1
     /\ sessions = 0)
        => /\ pc = "start_loop"
           /\ ndetect < MaxDetects => ENABLED (DetectNone \/ DetectFound)

\* C16: with no auto_restart in the config, two discoveries in a row found nothing and
\* start() is still discovering.
C16_Witness ==
    /\ "auto_restart" \notin DOMAIN config
    /\ running
    /\ gamepad = NoDevice
    /\ ndetect = 2
    /\ pc = "start_loop"

\* C17: when run_gamepad_loop reaches its polling loop, no button is recorded and both
\* triggers are below the threshold, whatever an earlier session left.
C17_SessionResets ==
    entered # "none" => Idle

\* C17: the polling loop was entered over the state an earlier session had left, and
\* starts idle.
C17_Witness ==
    /\ entered = "dirty"
    /\ pc = "loop"
    /\ Idle

\* C18: an axis 2 or 3 event not above the threshold (equal to it included) makes no
\* call and leaves its trigger below; one above it, of either sign, leaves its trigger
\* above; and each trigger's state is what the last event of its own axis made it.
C18_TriggerResetBoundary ==
    /\ IsTrigger =>
        IF Abs(event.value) > TriggerThreshold
        THEN trigger_states[trigger_name(event.axis)]
        ELSE /\ ~trigger_states[trigger_name(event.axis)]
             /\ called = None
             /\ injected = <<>>
    /\ trigger_states.left = (last_axis[2] = "high")
    /\ trigger_states.right = (last_axis[3] = "high")

\* C18: an axis 2 event equal to the threshold reset the left trigger and left the right
\* trigger above.
C18_Witness ==
    /\ event.type = "JOYAXISMOTION"
    /\ event.axis = 2
    /\ event.value = TriggerThreshold
    /\ before = "high"
    /\ ~trigger_states.left
    /\ trigger_states.right
    /\ called = None

\* C19: a button event with an id outside 0..9 and an axis event of an axis other than
\* 0..3 make no call and change no button or trigger state; an axis 0 or 1 event changes
\* no button or trigger state.
C19_IgnoredEventsNoEffect ==
    [][(event' \in Events /\ Translate(event'))
          => LET outside == IF event'.type = "JOYAXISMOTION"
                            THEN event'.axis \notin 0..3
                            ELSE event'.button \notin 0..9
                 dpad == event'.type = "JOYAXISMOTION" /\ event'.axis \in {0, 1}
             IN /\ outside => (called' = None /\ injected' = <<>>)
                /\ (outside \/ dpad) => /\ button_states' = button_states
                                        /\ trigger_states' = trigger_states]_vars

\* C19: a button-up of id 10 was handled while A was recorded and the left trigger was
\* above: nothing was called and nothing was recorded for it.
C19_Witness ==
    /\ event = [type |-> "JOYBUTTONUP", button |-> 10]
    /\ called = None
    /\ DOMAIN button_states = {"A"}
    /\ trigger_states.left

\* C20: button events never change trigger_states and axis events never change
\* button_states; a first button-down of id 4 fires LEFT_TRIGGER whatever the left
\* trigger's state, and an axis 2 event that crosses the threshold fires LEFT_TRIGGER
\* whatever button 4 did.
C20_TwoLeftTriggerMachines ==
    [][(event' \in Events /\ Translate(event'))
          => IF event'.type = "JOYAXISMOTION"
             THEN /\ button_states' = button_states
                  /\ (event'.axis = 2 /\ Abs(event'.value) > TriggerThreshold
                        /\ ~trigger_states.left) => called' = "LEFT_TRIGGER"
             ELSE /\ trigger_states' = trigger_states
                  /\ (event' = [type |-> "JOYBUTTONDOWN", button |-> 4]
                        /\ "LEFT_TRIGGER" \notin DOMAIN button_states)
                        => called' = "LEFT_TRIGGER"]_vars

\* C20: button 4 went down and was not released, and an axis 2 event above the threshold
\* fired LEFT_TRIGGER again.
C20_Witness ==
    /\ event = [type |-> "JOYAXISMOTION", axis |-> 2, value |-> 9]
    /\ called = "LEFT_TRIGGER"
    /\ last_button[4] = "down"
    /\ "LEFT_TRIGGER" \in DOMAIN button_states
    /\ button_states["LEFT_TRIGGER"]

====
